---------------------------- MODULE Spec2Model ----------------------------
(***************************************************************************)
(* The two build scripts of the manifesto site:                            *)
(*   build-manifesto.js       Markdown -> HTML -> manifesto/index.html     *)
(*   the DOCX build script    DOCX -> HTML -> normalise -> index.html      *)
(*                                                                         *)
(* A JavaScript string is a sequence of lexical atoms.  Each atom stands   *)
(* for a fixed run of characters (a tag, an attribute, a run of text, one  *)
(* punctuation character).  The atoms are chosen so that every literal the *)
(* scripts search for ("<img", ">", "<ol>", "</ol>", "footnote-", the      *)
(* up-arrow, "<article>", "</article>", the citations tags, "$" patterns   *)
(* of String.prototype.replace) begins and ends on an atom boundary.       *)
(***************************************************************************)
EXTENDS Integers, Sequences, FiniteSets

VARIABLES
    script,        \* which script this process is: "md" or "docx"
    pc,            \* position of the run inside the script
    sourceExists,  \* whether the source file is on disk for this run
    sourceConverts,\* whether the external converter succeeds on the source
    sourceValue,   \* the HTML the external converter yields for the source
    indexFile,     \* content of manifesto/index.html on disk
    indexBefore,   \* content of manifesto/index.html when the run started
    htmlContent,   \* the script's htmlContent variable
    before,        \* htmlContent as it was before the last normalizer step
    exitCode,      \* exit status of the process, -1 while it runs
    errLogged,     \* console.error was called in this run
    written,       \* fs.writeFileSync(indexPath, ...) was called in this run
    runs,          \* number of runs started so far
    transform,     \* name of the normalizer transform applied (SpecNorm)
    once,          \* the transform applied once to the fragment (SpecNorm)
    twice          \* the transform applied twice to the fragment (SpecNorm)

vars == <<script, pc, sourceExists, sourceConverts, sourceValue, indexFile, indexBefore,
          htmlContent, before, exitCode, errLogged, written, runs,
          transform, once, twice>>

-----------------------------------------------------------------------------
(* Bounds of the model.                                                    *)

MaxRuns == 2
MaxBodyLen == 2
MaxImgLen == 5
MaxListLen == 5
MaxMixedLen == 3

-----------------------------------------------------------------------------
(* Atoms.                                                                  *)

ImgOpen == "<img"
Gt == ">"
RemoveMeAttr == " class=\"remove-me\""
BannerAttrs == " src=\"banner.png\" alt=\"Banner\" style=\"width: 100%; height: auto; display: block; margin: 0 auto 30px;\""
OlOpen == "<ol>"
OlClose == "</ol>"
FootnoteId == "footnote-"
UpArrow == "↑"
NL == "\n"
ArticleOpen == "<article>"
ArticleClose == "</article>"
CitationsOpen == "<div class=\"citations\">"
DivClose == "</div>"
Dollar == "$"
Amp == "&"
\* the grave accent and the apostrophe, written by code point
Backtick == "U+0060"
Apostrophe == "U+0027"

\* Atoms whose last character is ">" (and that hold no other ">").
EndsGt(a) ==
    a \in {Gt, OlOpen, OlClose, ArticleOpen, ArticleClose, CitationsOpen,
           DivClose, "<h2>", "</h2>"}

\* A trim that strips blanks only and leaves the line terminators.
IsBlankOnly(a) == a = " "

\* White space as String.prototype.trim strips it (WhiteSpace and
\* LineTerminator code points).
IsTrimSpace(a) == a \in {" ", NL, "\t", "\r"}

\* White space as the regular expression class \s matches it (the same
\* WhiteSpace and LineTerminator code points).
IsRegexSpace(a) == a \in {" ", NL, "\t", "\r"}

-----------------------------------------------------------------------------
(* Sequence helpers.                                                       *)

SeqsUpTo(S, n) == UNION {[1..k -> S] : k \in 0..n}

Min(S) == CHOOSE x \in S : \A y \in S : x <= y
Max(S) == CHOOSE x \in S : \A y \in S : x >= y

\* s.substring(i - 1) with 1-based i
From(s, i) == SubSeq(s, i, Len(s))

\* s.substring(0, i - 1) with 1-based i
Upto(s, i) == SubSeq(s, 1, i - 1)

\* s.includes(a) for an atom a
Includes(s, a) == \E i \in 1..Len(s) : s[i] = a

\* sub occurs in s at position i
OccursAt(s, sub, i) ==
    /\ i >= 1
    /\ i + Len(sub) - 1 <= Len(s)
    /\ SubSeq(s, i, i + Len(sub) - 1) = sub

\* s.indexOf(sub) + 1, or 0 when sub does not occur
IndexOf(s, sub) ==
    LET P == {i \in 1..(Len(s) + 1) : OccursAt(s, sub, i)}
    IN  IF P = {} THEN 0 ELSE Min(P)

Contains(s, sub) == IndexOf(s, sub) # 0

Count(s, a) == Cardinality({i \in 1..Len(s) : s[i] = a})


-----------------------------------------------------------------------------
(* String.prototype.replace: expansion of the replacement string.          *)
(* "$$" inserts "$", "$&" the matched text, "$" and a grave accent the     *)
(* text before the match, "$" and an apostrophe the text after it; any     *)
(* other "$" stays as it is (the                                           *)
(* patterns of the scripts have no capture groups).                        *)

RECURSIVE GetSubstitution(_, _, _, _, _)
GetSubstitution(matched, prefix, suffix, replacement, i) ==
    IF i > Len(replacement) THEN <<>>
    ELSE IF replacement[i] = Dollar /\ i < Len(replacement)
              /\ replacement[i + 1] \in {Dollar, Amp, Backtick, Apostrophe}
         THEN (CASE replacement[i + 1] = Dollar     -> <<Dollar>>
                 [] replacement[i + 1] = Amp        -> matched
                 [] replacement[i + 1] = Backtick   -> prefix
                 [] replacement[i + 1] = Apostrophe -> suffix)
              \o GetSubstitution(matched, prefix, suffix, replacement, i + 2)
         ELSE <<replacement[i]>>
              \o GetSubstitution(matched, prefix, suffix, replacement, i + 1)

\* s.replace(<match at first..last>, replacement)
ReplaceMatch(s, first, last, replacement) ==
    LET matched == SubSeq(s, first, last)
        prefix  == Upto(s, first)
        suffix  == From(s, last + 1)
    IN  prefix \o GetSubstitution(matched, prefix, suffix, replacement, 1)
               \o suffix

\* The match of a non-greedy /OPEN[\s\S]*?CLOSE/ in s: <<first, last>>, or
\* <<0, 0>> when there is none.  The leftmost OPEN that has a CLOSE after it,
\* up to the first CLOSE after it.
LazyMatch(s, open, close) ==
    LET Starts == {i \in 1..Len(s) :
                      s[i] = open /\ \E j \in (i + 1)..Len(s) : s[j] = close}
    IN  IF Starts = {} THEN <<0, 0>>
        ELSE LET first == Min(Starts)
             IN  <<first, Min({j \in (first + 1)..Len(s) : s[j] = close})>>

\* articleRegex = /<article>[\s\S]*?<\/article>/
ArticleMatch(s) == LazyMatch(s, ArticleOpen, ArticleClose)

\* articleRegex.test(indexHtml)
ArticleTest(s) == ArticleMatch(s)[1] # 0

\* newArticle: <article>\n${htmlContent}\n</article>
NewArticle(html) == <<ArticleOpen, NL>> \o html \o <<NL, ArticleClose>>

\* indexHtml.replace(articleRegex, newArticle)
InjectArticle(indexHtml, html) ==
    LET m == ArticleMatch(indexHtml)
    IN  IF m[1] = 0 THEN indexHtml
        ELSE ReplaceMatch(indexHtml, m[1], m[2], NewArticle(html))

\* citationsRegex = /<div class="citations">[\s\S]*?<\/div>/
CitationsMatch(s) == LazyMatch(s, CitationsOpen, DivClose)

\* indexHtml.replace(citationsRegex, '')
RemoveCitations(indexHtml) ==
    LET m == CitationsMatch(indexHtml)
    IN  IF m[1] = 0 THEN indexHtml
        ELSE ReplaceMatch(indexHtml, m[1], m[2], <<>>)

-----------------------------------------------------------------------------
(* ContentNormalizer of the DOCX script.                                   *)

\* Index of the first atom after position i that closes a tag, 0 if none:
\* where [^>]*> stops when it starts after position i.
FirstGtAfter(s, i) ==
    LET P == {j \in (i + 1)..Len(s) : EndsGt(s[j])}
    IN  IF P = {} THEN 0 ELSE Min(P)

\* /<img[^>]*class="remove-me"[^>]*>/ matches at i, up to FirstGtAfter(s, i)
SentinelImageAt(s, i) ==
    /\ s[i] = ImgOpen
    /\ FirstGtAfter(s, i) # 0
    /\ \E k \in (i + 1)..(FirstGtAfter(s, i) - 1) : s[k] = RemoveMeAttr

\* /<img[^>]*>/ matches at i, up to FirstGtAfter(s, i)
ImageAt(s, i) ==
    /\ s[i] = ImgOpen
    /\ FirstGtAfter(s, i) # 0

\* htmlContent.replace(/<img[^>]*class="remove-me"[^>]*>/g, '') from i on
RECURSIVE StripSentinelFrom(_, _)
StripSentinelFrom(s, i) ==
    IF i > Len(s) THEN <<>>
    ELSE IF SentinelImageAt(s, i)
         THEN StripSentinelFrom(s, FirstGtAfter(s, i) + 1)
         ELSE <<s[i]>> \o StripSentinelFrom(s, i + 1)

RemoveSentinelImages(s) == StripSentinelFrom(s, 1)

\* htmlContent.replace(/<img[^>]*>/g, '') from i on
RECURSIVE StripImagesFrom(_, _)
StripImagesFrom(s, i) ==
    IF i > Len(s) THEN <<>>
    ELSE IF ImageAt(s, i)
         THEN StripImagesFrom(s, FirstGtAfter(s, i) + 1)
         ELSE <<s[i]>> \o StripImagesFrom(s, i + 1)

\* The same replace without the g flag: only the first image goes.
RemoveFirstImageOnly(s) ==
    LET P == {i \in 1..Len(s) : ImageAt(s, i)}
    IN  IF P = {} THEN s
        ELSE Upto(s, Min(P)) \o From(s, FirstGtAfter(s, Min(P)) + 1)

RemoveAllImages(s) == StripImagesFrom(s, 1)

\* bannerHtml
BannerHtml == <<ImgOpen, BannerAttrs, Gt, NL>>

\* The banner put after the content instead of before it.
AppendBanner(s) == s \o BannerHtml

\* htmlContent = bannerHtml + htmlContent
PrependBanner(s) == BannerHtml \o s

\* s.trim()
Trim(s) ==
    LET P == {i \in 1..Len(s) : ~IsTrimSpace(s[i])}
    IN  IF P = {} THEN <<>> ELSE SubSeq(s, Min(P), Max(P))

\* s.endsWith(a) for an atom a
EndsWith(s, a) == Len(s) > 0 /\ s[Len(s)] = a

\* s.lastIndexOf(a) + 1, 0 when a does not occur
LastIndexOf(s, a) ==
    LET P == {i \in 1..Len(s) : s[i] = a}
    IN  IF P = {} THEN 0 ELSE Max(P)

\* footnotesContent.includes('footnote-') || footnotesContent.includes('↑')
LooksLikeFootnotes(c) == Includes(c, FootnoteId) \/ Includes(c, UpArrow)

\* '<div class="citations">\n<h2>References</h2>\n'
WrapOpen == <<CitationsOpen, NL, "<h2>", "References", "</h2>", NL>>

\* '\n</div>'
WrapClose == <<NL, DivClose>>

\* First pass: the trimmed fragment ends with '</ol>'.
WrapLastOl(s) ==
    LET lastOlIndex == LastIndexOf(s, OlOpen)
    IN  IF lastOlIndex # 0 /\ LooksLikeFootnotes(From(s, lastOlIndex))
        THEN Upto(s, lastOlIndex) \o WrapOpen \o From(s, lastOlIndex)
                                  \o WrapClose
        ELSE s

\* htmlContent.match(/<ol>[\s\S]*?<\/ol>\s*$/): where the match starts, 0 when
\* there is none.  The match runs to the end of the string.
FallbackMatch(s) ==
    LET P == {i \in 1..Len(s) :
                 /\ s[i] = OlOpen
                 /\ \E j \in (i + 1)..Len(s) :
                       /\ s[j] = OlClose
                       /\ \A k \in (j + 1)..Len(s) : IsRegexSpace(s[k])}
    IN  IF P = {} THEN 0 ELSE Min(P)

\* Fallback pass: htmlContent.replace(footnotesContent, wrapper), a replace
\* with a string pattern: its first occurrence, "$" patterns expanded.
WrapFallback(s) ==
    IF FallbackMatch(s) = 0 THEN s
    ELSE LET footnotesContent == From(s, FallbackMatch(s))
             at == IndexOf(s, footnotesContent)
         IN  IF LooksLikeFootnotes(footnotesContent)
             THEN ReplaceMatch(s, at, at + Len(footnotesContent) - 1,
                               WrapOpen \o footnotesContent \o WrapClose)
             ELSE s

\* 3. Fix Footnotes
WrapFootnotes(s) ==
    IF EndsWith(Trim(s), OlClose) THEN WrapLastOl(s) ELSE WrapFallback(s)

\* The .then handler's normalisation of result.value
Normalize(value) ==
    WrapFootnotes(PrependBanner(RemoveAllImages(RemoveSentinelImages(value))))

-----------------------------------------------------------------------------
(* Inputs: templates on disk and converter results.                        *)

\* A citations container left by earlier content.
StaleCitations == <<CitationsOpen, "old-refs", DivClose>>

\* manifesto/index.html before the first run: with one content region or
\* none, and with at most one citations container, in any of three places.
Templates ==
    {t \in {pre \o region \o post :
                pre \in {<<"header">>, <<"header">> \o StaleCitations},
                region \in {<<ArticleOpen, "old", ArticleClose>>,
                            <<ArticleOpen>> \o StaleCitations
                                           \o <<ArticleClose>>,
                            <<"old">>},
                post \in {<<"footer">>, StaleCitations \o <<"footer">>}} :
        Count(t, CitationsOpen) <= 1}

\* Text of the source document as the converter passes it through.
Bodies == SeqsUpTo({"x", Dollar, Amp, Backtick}, MaxBodyLen)

\* What the converter emits at the end of the document: nothing, a list of
\* footnotes, or an ordinary numbered list.
Tails == {<<>>, <<OlOpen, FootnoteId, OlClose>>, <<OlOpen, "x", OlClose>>}

\* What the converter emits for the embedded images: none, or a placeholder.
Heads == {<<>>, <<ImgOpen, RemoveMeAttr, Gt>>}

\* HTML the external converter (marked.parse, mammoth.convertToHtml) yields.
Values == {h \o b \o t : h \in Heads, b \in Bodies, t \in Tails}

-----------------------------------------------------------------------------
(* The scripts.                                                            *)

Init ==
    /\ script \in {"md", "docx"}
    /\ pc = "start"
    /\ sourceExists \in BOOLEAN
    /\ sourceConverts \in BOOLEAN
    /\ sourceValue \in Values
    /\ indexFile \in Templates
    /\ indexBefore = indexFile
    /\ htmlContent = <<>>
    /\ before = <<>>
    /\ exitCode = -1
    /\ errLogged = FALSE
    /\ written = FALSE
    /\ runs = 1
    /\ transform = "none"
    /\ once = <<>>
    /\ twice = <<>>

normVars == <<before, transform, once, twice>>
sourceVars == <<script, sourceExists, sourceConverts, sourceValue>>

\* catch (err) { console.error(...) } of build-manifesto.js: the error is
\* logged and the async function returns, so the process ends with status 0.
MdCatch ==
    /\ errLogged' = TRUE
    /\ exitCode' = 0
    /\ pc' = "done"
    /\ UNCHANGED <<indexFile, indexBefore, htmlContent, written, runs>>

\* A read that yields the empty text for a missing file instead of throwing.
MdReadSourceIgnoresMissing ==
    /\ script = "md" /\ pc = "start"
    /\ pc' = "parse"
    /\ UNCHANGED <<indexFile, indexBefore, htmlContent, exitCode, errLogged,
                   written, runs, script, sourceExists, sourceConverts,
                   sourceValue, before, transform, once, twice>>

\* const markdown = fs.readFileSync(sourcePath, 'utf8')
MdReadSource ==
    /\ script = "md" /\ pc = "start"
    /\ IF sourceExists
       THEN /\ pc' = "parse"
            /\ UNCHANGED <<indexFile, indexBefore, htmlContent, exitCode,
                           errLogged, written, runs>>
       ELSE MdCatch
    /\ UNCHANGED <<sourceVars, normVars>>

\* const htmlContent = marked.parse(markdown)
MdParse ==
    /\ script = "md" /\ pc = "parse"
    /\ IF sourceConverts
       THEN /\ htmlContent' = sourceValue
            /\ pc' = "inject"
            /\ UNCHANGED <<indexFile, indexBefore, exitCode, errLogged,
                           written, runs>>
       ELSE MdCatch
    /\ UNCHANGED <<sourceVars, normVars>>

\* Read index.html, replace the article, write it back or exit(1).
MdInject ==
    /\ script = "md" /\ pc = "inject"
    /\ IF ArticleTest(indexFile)
       THEN /\ indexFile' = InjectArticle(indexFile, htmlContent)
            /\ written' = TRUE
            /\ exitCode' = 0
            /\ UNCHANGED errLogged
       ELSE /\ errLogged' = TRUE
            /\ exitCode' = 1
            /\ UNCHANGED <<indexFile, written>>
    /\ pc' = "done"
    /\ UNCHANGED <<indexBefore, htmlContent, runs, sourceVars, normVars>>

\* if (!fs.existsSync(sourcePath)) { ...; process.exit(1); }
DocxPreflight ==
    /\ script = "docx" /\ pc = "start"
    /\ IF sourceExists
       THEN /\ pc' = "convert"
            /\ UNCHANGED <<exitCode, errLogged>>
       ELSE /\ errLogged' = TRUE
            /\ exitCode' = 1
            /\ pc' = "done"
    /\ UNCHANGED <<indexFile, indexBefore, htmlContent, written, runs,
                   sourceVars, normVars>>

\* mammoth.convertToHtml({ path: sourcePath }, options): resolves or rejects
DocxConvert ==
    /\ script = "docx" /\ pc = "convert"
    /\ pc' = IF sourceConverts THEN "then" ELSE "catch"
    /\ UNCHANGED <<indexFile, indexBefore, htmlContent, exitCode, errLogged,
                   written, runs, sourceVars, normVars>>

\* .then(function(result) { ... }): normalise, inject, remove the citations
\* block, write; or exit(1) when there is no article.
DocxThen ==
    /\ script = "docx" /\ pc = "then"
    /\ htmlContent' = Normalize(sourceValue)
    /\ IF ArticleTest(indexFile)
       THEN /\ indexFile' =
                  RemoveCitations(InjectArticle(indexFile, htmlContent'))
            /\ written' = TRUE
            /\ exitCode' = 0
            /\ UNCHANGED errLogged
       ELSE /\ errLogged' = TRUE
            /\ exitCode' = 1
            /\ UNCHANGED <<indexFile, written>>
    /\ pc' = "done"
    /\ UNCHANGED <<indexBefore, runs, sourceVars, normVars>>

\* .catch(function(error) { console.error(...); process.exit(1); })
DocxCatch ==
    /\ script = "docx" /\ pc = "catch"
    /\ errLogged' = TRUE
    /\ exitCode' = 1
    /\ pc' = "done"
    /\ UNCHANGED <<indexFile, indexBefore, htmlContent, written, runs,
                   sourceVars, normVars>>

\* The script is started again on the files as the last run left them; the
\* source file may have been added or removed in between.
Rerun ==
    /\ pc = "done" /\ runs < MaxRuns
    /\ runs' = runs + 1
    /\ pc' = "start"
    /\ sourceExists' \in BOOLEAN
    /\ indexBefore' = indexFile
    /\ htmlContent' = <<>>
    /\ exitCode' = -1
    /\ errLogged' = FALSE
    /\ written' = FALSE
    /\ UNCHANGED <<script, sourceConverts, sourceValue, indexFile, normVars>>

Next ==
    \/ MdReadSource
    \/ MdParse
    \/ MdInject
    \/ DocxPreflight
    \/ DocxConvert
    \/ DocxThen
    \/ DocxCatch
    \/ Rerun

Spec == Init /\ [][Next]_vars

-----------------------------------------------------------------------------
(* The normalizer on its own: every fragment of the bounded sets is taken  *)
(* through the four steps of the .then handler in the code's order, and    *)
(* each step is also applied twice to the raw fragment.                    *)

\* Fragments with image tags, fragments with ordered lists, and short
\* fragments with both.
ImgAlphabet == {ImgOpen, RemoveMeAttr, Gt, "x"}
ListAlphabet == {OlOpen, OlClose, FootnoteId, UpArrow, NL, "x"}
Fragments ==
    SeqsUpTo(ImgAlphabet, MaxImgLen)
    \cup SeqsUpTo(ListAlphabet, MaxListLen)
    \cup SeqsUpTo(ImgAlphabet \cup ListAlphabet, MaxMixedLen)

Transforms == {"removeSentinel", "removeAll", "prependBanner", "wrapFootnotes"}

ApplyTransform(t, s) ==
    CASE t = "removeSentinel" -> RemoveSentinelImages(s)
      [] t = "removeAll"      -> RemoveAllImages(s)
      [] t = "prependBanner"  -> PrependBanner(s)
      [] t = "wrapFootnotes"  -> WrapFootnotes(s)

InitNorm ==
    /\ script = "docx"
    /\ pc = "raw"
    /\ sourceExists = TRUE
    /\ sourceConverts = TRUE
    /\ sourceValue \in Fragments
    /\ htmlContent = sourceValue
    /\ before = sourceValue
    /\ indexFile = <<>>
    /\ indexBefore = <<>>
    /\ exitCode = -1
    /\ errLogged = FALSE
    /\ written = FALSE
    /\ runs = 1
    /\ transform = "none"
    /\ once = <<>>
    /\ twice = <<>>

fileVars == <<sourceVars, indexFile, indexBefore, exitCode, errLogged,
              written, runs>>

\* htmlContent.replace(/<img[^>]*class="remove-me"[^>]*>/g, '')
StripSentinel ==
    /\ pc = "raw"
    /\ pc' = "noSentinel"
    /\ before' = htmlContent
    /\ htmlContent' = RemoveSentinelImages(htmlContent)
    /\ UNCHANGED <<fileVars, transform, once, twice>>

\* htmlContent.replace(/<img[^>]*>/g, '')
StripImages ==
    /\ pc = "noSentinel"
    /\ pc' = "noImages"
    /\ before' = htmlContent
    /\ htmlContent' = RemoveAllImages(htmlContent)
    /\ UNCHANGED <<fileVars, transform, once, twice>>

\* htmlContent = bannerHtml + htmlContent
InsertBanner ==
    /\ pc = "noImages"
    /\ pc' = "banner"
    /\ before' = htmlContent
    /\ htmlContent' = PrependBanner(htmlContent)
    /\ UNCHANGED <<fileVars, transform, once, twice>>

\* 3. Fix Footnotes
FixFootnotes ==
    /\ pc = "banner"
    /\ pc' = "normalized"
    /\ before' = htmlContent
    /\ htmlContent' = WrapFootnotes(htmlContent)
    /\ UNCHANGED <<fileVars, transform, once, twice>>

\* One transform applied to the raw fragment, and again to its result.
ApplyTwice ==
    /\ pc = "raw"
    /\ \E t \in Transforms :
          /\ transform' = t
          /\ once' = ApplyTransform(t, htmlContent)
          /\ twice' = ApplyTransform(t, ApplyTransform(t, htmlContent))
    /\ pc' = "applied"
    /\ UNCHANGED <<fileVars, htmlContent, before>>

NextNorm ==
    \/ StripSentinel
    \/ StripImages
    \/ InsertBanner
    \/ FixFootnotes
    \/ ApplyTwice

SpecNorm == InitNorm /\ [][NextNorm]_vars

-----------------------------------------------------------------------------
(* Properties of the scripts (specification Spec).                         *)

\* The template holds exactly one <article>...</article> region.
ExactlyOneRegion(t) ==
    /\ Count(t, ArticleOpen) = 1
    /\ Count(t, ArticleClose) = 1
    /\ ArticleTest(t)

\* C1: after a Markdown run that wrote the template, on a template with
\* exactly one content region, the file is the text before the region, a
\* fresh region holding exactly the rendered HTML, and the text after the
\* region.
C1_MarkdownRegionReplaced ==
    (script = "md" /\ pc = "done" /\ written /\ ExactlyOneRegion(indexBefore))
    => indexFile = Upto(indexBefore, ArticleMatch(indexBefore)[1])
                   \o NewArticle(htmlContent)
                   \o From(indexBefore, ArticleMatch(indexBefore)[2] + 1)

\* C2: in both scripts, a run on a template without a content region ends
\* with an error message and exit status 1 and leaves the file as it was.
C2_NoRegionFailsUnwritten ==
    (pc = "done" /\ ~ArticleTest(indexBefore))
    => /\ errLogged
       /\ exitCode = 1
       /\ ~written
       /\ indexFile = indexBefore

\* C3: a run whose source file is absent ends at its first step, and the
\* template is neither written nor changed.
C3_MissingSourceLeavesTemplate ==
    (~sourceExists /\ pc # "start")
    => /\ pc = "done"
       /\ ~written
       /\ indexFile = indexBefore

\* A run on a template with a content region ended because the source file
\* was absent.
C3_Witness ==
    /\ ~sourceExists
    /\ pc = "done"
    /\ errLogged
    /\ ArticleTest(indexFile)
    /\ indexFile = indexBefore

\* C6: in the document a DOCX run writes, the stale citations container of
\* the previous content is gone and the references container the run
\* generated is still inside the content region.
C6_FreshReferencesKept ==
    (script = "docx" /\ pc = "done" /\ written
        /\ ~Includes(htmlContent, Dollar))
    => /\ ~Contains(indexFile, StaleCitations)
       /\ Includes(htmlContent, CitationsOpen)
             => Contains(indexFile, NewArticle(htmlContent))

\* C7: whatever the number of DOCX runs on the same source, the template
\* never holds more than one citations container.
C7_AtMostOneCitations ==
    script = "docx" => Count(indexFile, CitationsOpen) <= 1

\* C8: the exit status is 0 exactly when the run wrote the template, and it
\* is 1 when the content region is missing, when the DOCX source is missing
\* and when the conversion throws.
C8_ExitStatus ==
    pc = "done"
    => /\ exitCode = 0 <=> written
       /\ ~ArticleTest(indexBefore) => exitCode = 1
       /\ (script = "docx" /\ ~sourceExists) => exitCode = 1
       /\ (sourceExists /\ ~sourceConverts) => exitCode = 1

-----------------------------------------------------------------------------
(* Properties of the normalizer (specification SpecNorm).                  *)

\* Number of image tags in s.
ImageCount(s) == Cardinality({i \in 1..Len(s) : ImageAt(s, i)})

\* C4: whatever images the converter output holds, the normalized fragment
\* holds exactly one image tag, the banner, at its very start.
C4_OnlyBannerImage ==
    pc = "normalized"
    => /\ ImageCount(htmlContent) = 1
       /\ OccursAt(htmlContent, BannerHtml, 1)

\* The converter output held a placeholder image and, after it, another
\* image.
C4_Witness ==
    /\ pc = "normalized"
    /\ \E i, j \in 1..Len(sourceValue) :
          /\ SentinelImageAt(sourceValue, i)
          /\ j > FirstGtAfter(sourceValue, i)
          /\ ImageAt(sourceValue, j)
          /\ ~SentinelImageAt(sourceValue, j)

\* The <ol> that the </ol> at position close answers, counting nested lists;
\* 0 when there is none.
RECURSIVE MatchingOlOpen(_, _, _)
MatchingOlOpen(s, i, depth) ==
    IF i < 1 THEN 0
    ELSE IF s[i] = OlClose THEN MatchingOlOpen(s, i - 1, depth + 1)
    ELSE IF s[i] = OlOpen
         THEN IF depth = 1 THEN i ELSE MatchingOlOpen(s, i - 1, depth - 1)
    ELSE MatchingOlOpen(s, i - 1, depth)

\* Where the ordered list that is the trailing block of s starts, 0 when the
\* trailing block of s is not an ordered list.
TrailingListStart(s) ==
    LET P == {i \in 1..Len(s) : ~IsRegexSpace(s[i])}
    IN  IF P = {} \/ s[Max(P)] # OlClose THEN 0
        ELSE MatchingOlOpen(s, Max(P) - 1, 1)

\* C5: a trailing ordered list (nested lists included) that holds a footnote
\* marker is wrapped whole in the citations container with its heading; a
\* trailing ordered list without a marker leaves the fragment as it was.
C5_TrailingListWrapped ==
    (pc = "normalized" /\ TrailingListStart(before) # 0)
    => IF LooksLikeFootnotes(From(before, TrailingListStart(before)))
       THEN htmlContent = Upto(before, TrailingListStart(before))
                          \o WrapOpen
                          \o From(before, TrailingListStart(before))
                          \o WrapClose
       ELSE htmlContent = before

\* C9 as stated: each of the four transforms, applied twice, gives what it
\* gives applied once.
C9_AllIdempotent ==
    pc = "applied" => twice = once

\* C9 as amended: the two image removals and the footnote wrapping give the
\* same fragment applied twice as applied once; the banner prepend does not,
\* a second application puts a second banner in front.
C9_IdempotentButBanner ==
    pc = "applied"
    => IF transform = "prependBanner"
       THEN twice = BannerHtml \o once /\ twice # once
       ELSE twice = once

\* The footnote wrapping acted on the fragment, and was applied again.
C9_Witness ==
    /\ pc = "applied"
    /\ transform = "wrapFootnotes"
    /\ once # sourceValue
    /\ Includes(once, CitationsOpen)

=============================================================================
